---- MODULE Spec2Model ----
(***************************************************************************)
(* A model of logassert (src/logassert/logassert.py): the records the      *)
(* capture handlers store, the matcher hierarchy, the sequence evaluator   *)
(* and the pytest comparer, as a state machine over the session's buffers. *)
(*                                                                         *)
(* Python values are tagged so that a str, an int and None never compare     *)
(* equal: a text is a sequence of one-character strings.  The regular      *)
(* expressions drawn as inputs are those made of literal characters and    *)
(* of ".", which matches any character.                                    *)
(***************************************************************************)
EXTENDS Integers, Sequences, FiniteSets, TLC

VARIABLES
    stdRecords,      \* _StdlibStoringHandler.records of the session
    structRecords,   \* _StructlogCapturer.records of the session
    nothingDefault,  \* NOTHING.default_response (module-level singleton)
    comparers,       \* the PyTestComparer objects the test holds, by name
    last,            \* the most recent `item in comparer` and its verdict
    history,         \* every emission and reset so far, in program order
    obtainedAt,      \* Len(history) when each comparer was obtained
    argObj,          \* the object the test passes as a logging argument
    loggerHandlers,  \* logging.getLogger(log_path).handlers
    loggerLevel,     \* logging.getLogger(log_path).level
    structlogProcessor, \* whose _capture structlog.configure installed last
    sessions,        \* the sessions created on the logger, by identity
    life             \* what the test did to the sessions, as the test sees it

lifeVars == <<loggerHandlers, loggerLevel, structlogProcessor, sessions, life>>

checkVars == <<stdRecords, structRecords, nothingDefault, comparers, last,
               history, obtainedAt, argObj>>

vars == <<stdRecords, structRecords, nothingDefault, comparers, last, history,
          obtainedAt, argObj, lifeVars>>

-----------------------------------------------------------------------------
(* Bounds of the explored behaviours. *)

MaxEvents == 3          \* emissions and resets in one behaviour of Spec
MaxSeqRecords == 5      \* emissions in one behaviour of SpecSeq
MaxSeqLen == 3          \* items of a Sequence drawn in SpecSeq
MaxMatchRecords == 1    \* emissions in one behaviour of SpecMatch
MaxContainsRecords == 3 \* emissions in one behaviour of SpecContains
MaxOrderRecords == 3    \* emissions in one behaviour of SpecOrder
MaxOrderLen == 2        \* items of a Sequence drawn in SpecOrder
MaxLegacyRecords == 3   \* emissions in one behaviour of SpecLegacy
MaxLegacyTokens == 2    \* tokens of one legacy helper call in SpecLegacy
MaxCoerceRecords == 3   \* emissions in one behaviour of SpecCoerce
MaxDictRecords == 2     \* emissions in one behaviour of SpecDict
MaxSnapEvents == 3      \* emissions and resets in one behaviour of SpecSnap
MaxEdgeRecords == 3     \* emissions in one behaviour of SpecEdge
MaxEdgeLen == 2         \* items of a Sequence drawn in SpecEdge
MaxDiagRecords == 3     \* emissions in one behaviour of SpecDiag
MaxRenderRecords == 2   \* emissions in one behaviour of SpecRender
MaxLifeEmits == 2       \* emissions in one behaviour of SpecLife
MaxTeardowns == 2       \* teardown() calls on one session in SpecLife

-----------------------------------------------------------------------------
(* Python values. *)

PyStr(s) == [t |-> "str", s |-> s, n |-> 0]
PyInt(n) == [t |-> "int", s |-> <<>>, n |-> n]
PyNone == [t |-> "none", s |-> <<>>, n |-> 0]

(* logging's level numbers, as FixtureLogChecker._levels names them. *)
DEBUG == 10
INFO == 20
WARNING == 30
ERROR == 40

(* logging.getLevelName for the four levels. *)
getLevelName(levelno) ==
    CASE levelno = DEBUG -> "DEBUG"
      [] levelno = INFO -> "INFO"
      [] levelno = WARNING -> "WARNING"
      [] levelno = ERROR -> "ERROR"

(* getattr(logging, levelname.upper()) in _StructlogCapturer._capture. *)
LevelOfName(levelname) ==
    CASE levelname = "debug" -> DEBUG
      [] levelname = "info" -> INFO
      [] levelname = "warning" -> WARNING
      [] levelname = "error" -> ERROR

(* FixtureLogChecker._levels; 0 stands for None (no filter). *)
NoLevel == 0
levels ==
    [name \in {"any_level", "debug", "info", "warning", "error"} |->
        CASE name = "any_level" -> NoLevel
          [] name = "debug" -> DEBUG
          [] name = "info" -> INFO
          [] name = "warning" -> WARNING
          [] name = "error" -> ERROR]

-----------------------------------------------------------------------------
(* Records. *)

EmptyFields == [k \in {} |-> PyNone]

SimpleRecord(levelname, levelno, message) ==
    [cls |-> "SimpleRecord", levelname |-> levelname, levelno |-> levelno,
     message |-> message, extra_fields |-> EmptyFields]

(* data = event_dict.copy(); message = data.pop("event"); extra_fields = data *)
StructRecord(levelname, levelno, event_dict) ==
    [cls |-> "StructRecord", levelname |-> levelname, levelno |-> levelno,
     message |-> event_dict["event"],
     extra_fields |-> [k \in (DOMAIN event_dict) \ {"event"} |-> event_dict[k]]]

-----------------------------------------------------------------------------
(* Texts. *)

(* re.search of a pattern of literals and "." in a text *)
RegexSearch(pattern, text) ==
    \E i \in 0..(Len(text) - Len(pattern)) :
        \A j \in 1..Len(pattern) : pattern[j] = "." \/ pattern[j] = text[i + j]

(* Python's `t in message` for two texts *)
IsSubstring(t, text) ==
    \E i \in 0..(Len(text) - Len(t)) :
        \A j \in 1..Len(t) : t[j] = text[i + j]

-----------------------------------------------------------------------------
(* Matchers.  An item is what the test writes on the left of `in`:         *)
(*   [kind |-> "raw", token |-> v]       a plain Python value              *)
(*   [kind |-> "Regex", token |-> v]     Regex(v)                          *)
(*   [kind |-> "Exact", token |-> v]     Exact(v)                          *)
(*   [kind |-> "Multiple", tokens |-> <<texts>>]                           *)
(*   [kind |-> "Sequence", items |-> <<items>>]                            *)
(*   [kind |-> "Struct", msg |-> item, fields |-> [key |-> item]]          *)
(*   [kind |-> "CompleteStruct", msg |-> item, fields |-> [key |-> item]]  *)
(*   [kind |-> "NOTHING"]                the singleton                     *)

Raw(v) == [kind |-> "raw", token |-> v]
Regex(v) == [kind |-> "Regex", token |-> v]
Exact(v) == [kind |-> "Exact", token |-> v]
Multiple(tokens) == [kind |-> "Multiple", tokens |-> tokens]
Sequence(items) == [kind |-> "Sequence", items |-> items]
Struct(msg, fields) == [kind |-> "Struct", msg |-> msg, fields |-> fields]
CompleteStruct(msg, fields) == [kind |-> "CompleteStruct", msg |-> msg, fields |-> fields]
NOTHING == [kind |-> "NOTHING"]

get_matcher_RegexOnly(item) ==
    IF item.kind = "raw" THEN Regex(item.token) ELSE item

get_matcher(item) ==
    IF item.kind = "raw"
    THEN IF item.token.t = "str" THEN Regex(item.token) ELSE Exact(item.token)
    ELSE item

Regex_search_Literal(m, message) == IsSubstring(m.token.s, message.s)

Regex_search(m, message) == RegexSearch(m.token.s, message.s)

Exact_search(m, message) == m.token = message

Multiple_search(m, message) ==
    \A i \in 1..Len(m.tokens) : IsSubstring(m.tokens[i], message.s)

Matcher_search_NoTypeGuard(m, message) ==
    CASE m.kind = "Regex" -> Regex_search(m, message)
      [] m.kind = "Exact" -> Exact_search(m, message)
      [] m.kind = "Multiple" -> Multiple_search(m, message)

(* Matcher.search(message=...) of a Regex, an Exact or a Multiple *)
Matcher_search(m, message) ==
    IF m.kind # "Exact" /\ message.t # "str"
    THEN FALSE
    ELSE CASE m.kind = "Regex" -> Regex_search(m, message)
           [] m.kind = "Exact" -> Exact_search(m, message)
           [] m.kind = "Multiple" -> Multiple_search(m, message)

Struct_extra_fields_ok_Always(m, record) == TRUE

Struct_extra_fields_ok_Reversed(m, record) ==
    DOMAIN record.extra_fields \subseteq DOMAIN m.fields

Struct_extra_fields_ok(m, record) ==
    DOMAIN m.fields \subseteq DOMAIN record.extra_fields

CompleteStruct_extra_fields_ok_Superset(m, record) ==
    DOMAIN m.fields \subseteq DOMAIN record.extra_fields

CompleteStruct_extra_fields_ok(m, record) ==
    DOMAIN record.extra_fields = DOMAIN m.fields

extra_fields_ok_NoOverride(m, record) == Struct_extra_fields_ok(m, record)

extra_fields_ok(m, record) ==
    IF m.kind = "CompleteStruct"
    THEN CompleteStruct_extra_fields_ok(m, record)
    ELSE Struct_extra_fields_ok(m, record)

Struct_search(m, record) ==
    IF ~extra_fields_ok(m, record) THEN FALSE
    ELSE IF ~Matcher_search(get_matcher(m.msg), record.message) THEN FALSE
    ELSE \A key \in DOMAIN m.fields :
            \/ key \notin DOMAIN record.extra_fields
            \/ Matcher_search(get_matcher(m.fields[key]), record.extra_fields[key])

(* matcher.search(record=record): the value returned *)
search(m, record) ==
    CASE m.kind \in {"Struct", "CompleteStruct"} -> Struct_search(m, record)
      [] m.kind = "NOTHING" -> FALSE
      [] OTHER -> Matcher_search(m, record.message)

-----------------------------------------------------------------------------
(* PyTestComparer. *)

NoDesc == [kind |-> "empty"]
NoComparer == [level |-> -1]
NoCheck == [cmp |-> "none"]

LevelFilter_Unfiltered(records, level) == records

(* records that apply for the comparer's level (first line of __contains__) *)
LevelFilter(records, level) ==
    SelectSeq(records, LAMBDA rec : rec.levelno = level \/ level = NoLevel)

(* zip(section, matchers) all succeed for the section starting at start_idx *)
SectionMatches(matchers, records, start_idx) ==
    \A k \in 1..Len(matchers) : search(matchers[k], records[start_idx + k])

RECURSIVE TrySections_OffByOne(_, _, _)
TrySections_OffByOne(matchers, records, start_idx) ==
    IF start_idx >= Len(records) - Len(matchers) THEN FALSE
    ELSE IF SectionMatches(matchers, records, start_idx) THEN TRUE
    ELSE TrySections_OffByOne(matchers, records, start_idx + 1)

RECURSIVE TrySections(_, _, _)
TrySections(matchers, records, start_idx) ==
    IF start_idx > Len(records) - Len(matchers) THEN FALSE
    ELSE IF SectionMatches(matchers, records, start_idx) THEN TRUE
    ELSE TrySections(matchers, records, start_idx + 1)

verify_sequence_EmptyFails(token, records) ==
    LET matchers == [k \in 1..Len(token) |-> get_matcher(token[k])]
    IN  token # <<>> /\ TrySections(matchers, records, 0)

verify_sequence(token, records) ==
    LET matchers == [k \in 1..Len(token) |-> get_matcher(token[k])]
    IN  TrySections(matchers, records, 0)

(* Whether _Nothing.search runs during _verify_sequence: NOTHING stands at  *)
(* position k of a section that is tried and whose earlier positions match. *)
SequenceRunsNothing(token, records) ==
    LET matchers == [k \in 1..Len(token) |-> get_matcher(token[k])]
    IN  \E start_idx \in 0..(Len(records) - Len(matchers)) :
            /\ \A s \in 0..(start_idx - 1) : ~SectionMatches(matchers, records, s)
            /\ \E k \in 1..Len(matchers) :
                /\ matchers[k].kind = "NOTHING"
                /\ \A j \in 1..(k - 1) : search(matchers[j], records[start_idx + j])

default_response_True(matcher, records, nothing) == TRUE

(* matcher.default_response once the searches have run *)
default_response(matcher, records, nothing) ==
    IF matcher.kind = "NOTHING"
    THEN IF records # <<>> THEN FALSE ELSE nothing
    ELSE FALSE

PyTestComparer_contains_Live(cmp, item, nothing) ==
    LET records == LevelFilter(stdRecords \o structRecords, cmp.level)
        matcher == get_matcher(item)
    IN  IF item.kind = "Sequence"
        THEN [result |-> verify_sequence(item.items, records),
              desc |-> item,
              nothing |-> nothing]
        ELSE [result |-> \E i \in 1..Len(records) : search(matcher, records[i]),
              desc |-> matcher,
              nothing |-> nothing]

(* PyTestComparer.__contains__: the verdict, the description it leaves on   *)
(* the comparer and NOTHING.default_response afterwards.                    *)
PyTestComparer_contains(cmp, item, nothing) ==
    LET records == LevelFilter(cmp.records, cmp.level)
        matcher == get_matcher(item)
    IN  IF item.kind = "Sequence"
        THEN [result |-> verify_sequence(item.items, records),
              desc |-> item,
              nothing |-> IF SequenceRunsNothing(item.items, records)
                          THEN FALSE ELSE nothing]
        ELSE [result |-> IF \E i \in 1..Len(records) : search(matcher, records[i])
                         THEN TRUE
                         ELSE default_response(matcher, records, nothing),
              desc |-> matcher,
              nothing |-> IF matcher.kind = "NOTHING" /\ records # <<>>
                          THEN FALSE ELSE nothing]

(* PyTestComparer._get_records: the handlers' records, handler by handler *)
get_records == stdRecords \o structRecords

-----------------------------------------------------------------------------
(* Operations. *)

ComparerNames == {"c1", "c2"}

(* What the test did, as the test sees it: the backend it logged through,   *)
(* the level it logged at and the text or event it logged.                  *)
Emission(backend, levelno, message) ==
    [ev |-> "emit", backend |-> backend, levelno |-> levelno, message |-> message]
ResetEvent == [ev |-> "reset"]

(* _StdlibStoringHandler.emit for a LogRecord of the supervised logger *)
StdEmit(record) ==
    LET r == SimpleRecord(getLevelName(record.levelno), record.levelno,
                          PyStr(record.msg))
    IN  /\ stdRecords' = Append(stdRecords, r)
        /\ history' = Append(history, Emission("std", record.levelno, PyStr(record.msg)))
        /\ UNCHANGED <<structRecords, nothingDefault, comparers, last,
                       obtainedAt, argObj, lifeVars>>

(* _StructlogCapturer._capture for a call logger.<levelname>(event, **kw) *)
StructCapture(levelname, event_dict) ==
    LET r == StructRecord(levelname, LevelOfName(levelname), event_dict)
    IN  /\ structRecords' = Append(structRecords, r)
        /\ history' = Append(history,
                Emission("struct", LevelOfName(levelname), event_dict["event"]))
        /\ UNCHANGED <<stdRecords, nothingDefault, comparers, last,
                       obtainedAt, argObj, lifeVars>>

Reset_StdOnly ==
    /\ stdRecords' = <<>>
    /\ history' = Append(history, ResetEvent)
    /\ UNCHANGED <<structRecords, nothingDefault, comparers, last,
                   obtainedAt, argObj, lifeVars>>

(* FixtureLogChecker.reset: every handler's records.clear() *)
Reset ==
    /\ stdRecords' = <<>>
    /\ structRecords' = <<>>
    /\ history' = Append(history, ResetEvent)
    /\ UNCHANGED <<nothingDefault, comparers, last, obtainedAt, argObj, lifeVars>>

(* c = logs.<name>: FixtureLogChecker.__getattribute__ and                 *)
(* PyTestComparer.__init__, which resets NOTHING                           *)
GetComparer(c, name) ==
    /\ comparers' = [comparers EXCEPT ![c] =
            [level |-> levels[name], desc |-> NoDesc, records |-> get_records]]
    /\ nothingDefault' = TRUE
    /\ obtainedAt' = [obtainedAt EXCEPT ![c] = Len(history)]
    /\ UNCHANGED <<stdRecords, structRecords, last, history, argObj, lifeVars>>

(* item in c *)
Contains(c, item) ==
    /\ comparers[c] # NoComparer
    /\ LET out == PyTestComparer_contains(comparers[c], item, nothingDefault)
       IN  /\ last' = [cmp |-> c, item |-> item, verdict |-> out.result]
           /\ comparers' = [comparers EXCEPT ![c].desc = out.desc]
           /\ nothingDefault' = out.nothing
    /\ UNCHANGED <<stdRecords, structRecords, history, obtainedAt, argObj, lifeVars>>

(* The object of the tests of delayed messaging: str() of it gives its     *)
(* text, or raises once should_explode is set.                              *)
Exploding(text, should_explode) == [text |-> text, should_explode |-> should_explode]

(* The sessions that can be created on the logger, and one not created yet. *)
SessionIds == {1, 2}
NoSession ==
    [status |-> "none", kind |-> "none", original_logger_level |-> NoLevel,
     records |-> <<>>, struct_records |-> <<>>, teardowns |-> 0]
NoOp == [sid |-> 0, op |-> "none", torn |-> FALSE]
NoEmit == [backend |-> "none", levelno |-> NoLevel, active |-> FALSE, user |-> FALSE]

(* The buffers, the singleton and the comparers after                      *)
(* `logs = FixtureLogChecker()` and the import of the module               *)
InitChecks ==
    /\ stdRecords = <<>>
    /\ structRecords = <<>>
    /\ nothingDefault = TRUE
    /\ comparers = [c \in ComparerNames |-> NoComparer]
    /\ last = NoCheck
    /\ history = <<>>
    /\ obtainedAt = [c \in ComparerNames |-> 0]
    /\ argObj = Exploding(<<"x">>, FALSE)

(* The logger and structlog before any session is followed on them: the    *)
(* root logger's default threshold, no handler, structlog as the           *)
(* application configured it (0).                                           *)
InitLogger(level, handlers) ==
    /\ loggerHandlers = handlers
    /\ loggerLevel = level
    /\ structlogProcessor = 0
    /\ sessions = [sid \in SessionIds |-> NoSession]
    /\ life = [pristine |-> level, lastInstalled |-> 0, emits |-> 0,
               lastOp |-> NoOp, handlers0 |-> handlers,
               createdAt |-> [sid \in SessionIds |-> 0], lastEmit |-> NoEmit]

Init == InitChecks /\ InitLogger(WARNING, <<>>)

-----------------------------------------------------------------------------
(* Spec: a session with both backends, two comparers held by the test.     *)

StdInputs ==
    {[levelno |-> DEBUG, msg |-> <<"a">>], [levelno |-> WARNING, msg |-> <<"b">>]}
StructInputs ==
    {[levelname |-> "info", event_dict |-> [event |-> PyStr(<<"a">>)]]}
QueryNames == {"any_level", "debug"}
Items == {NOTHING, Sequence(<<Raw(PyStr(<<"a">>)), NOTHING>>)}

Next ==
    \/ \E record \in StdInputs : Len(history) < MaxEvents /\ StdEmit(record)
    \/ \E e \in StructInputs :
          Len(history) < MaxEvents /\ StructCapture(e.levelname, e.event_dict)
    \/ Len(history) < MaxEvents /\ Reset
    \/ \E name \in QueryNames : comparers["c1"] = NoComparer /\ GetComparer("c1", name)
    \/ \E name \in QueryNames :
          /\ comparers["c1"] # NoComparer
          /\ comparers["c2"] = NoComparer
          /\ GetComparer("c2", name)
    \/ \E c \in ComparerNames, item \in Items : Contains(c, item)

Spec == Init /\ [][Next]_vars

-----------------------------------------------------------------------------
(* Claims checked under Spec. *)

LastCmp == comparers[last.cmp]
LastFiltered == LevelFilter(LastCmp.records, LastCmp.level)

(* C2: `NOTHING in comparer(F)` is true iff no record of the comparer       *)
(* passes its level filter F, whatever was evaluated before.                *)
C2_NothingIffNoRecordPasses ==
    (last # NoCheck /\ last.item = NOTHING)
        => (last.verdict <=> LastFiltered = <<>>)

(* The emissions made through a backend since the last reset, in order. *)
LastResetIdx ==
    LET resets == {i \in 1..Len(history) : history[i].ev = "reset"}
    IN  IF resets = {} THEN 0 ELSE CHOOSE i \in resets : \A j \in resets : j <= i

EmittedSinceReset(backend) ==
    SelectSeq(SubSeq(history, LastResetIdx + 1, Len(history)),
              LAMBDA e : e.ev = "emit" /\ e.backend = backend)

Captured(records) ==
    [i \in 1..Len(records) |->
        [levelno |-> records[i].levelno, message |-> records[i].message]]

Emitted(backend) ==
    LET es == EmittedSinceReset(backend)
    IN  [i \in 1..Len(es) |-> [levelno |-> es[i].levelno, message |-> es[i].message]]

(* C10: each adapter's buffer is exactly the emissions made through it      *)
(* since the last reset, in emission order, each exactly once.              *)
C10_BufferIsEmissionsSinceReset ==
    /\ Captured(stdRecords) = Emitted("std")
    /\ Captured(structRecords) = Emitted("struct")

(* An emission, a reset, then an emission at another level: the buffer     *)
(* holds the second emission only.                                          *)
C10_Witness ==
    /\ Len(history) = 3
    /\ history[1].ev = "emit" /\ history[1].backend = "std"
    /\ history[2].ev = "reset"
    /\ history[3].ev = "emit" /\ history[3].backend = "std"
    /\ history[1].levelno # history[3].levelno
    /\ Len(stdRecords) = 1

-----------------------------------------------------------------------------
(* SpecSeq: the sequence evaluator.  The test logs through the standard    *)
(* logger, obtains one comparer and evaluates one Sequence on it.          *)

A1 == <<"a", "1">>
A2 == <<"a", "2">>
Dashes == <<"-", "-">>

SeqStdInputs ==
    {[levelno |-> DEBUG, msg |-> A1], [levelno |-> DEBUG, msg |-> A2],
     [levelno |-> DEBUG, msg |-> Dashes], [levelno |-> INFO, msg |-> A1]}
SeqQueryNames == {"any_level", "debug", "info"}
SeqItems == {Raw(PyStr(A1)), Raw(PyStr(A2))}
SeqTokens == UNION {[1..n -> SeqItems] : n \in 0..MaxSeqLen}

NextSeq ==
    \/ \E record \in SeqStdInputs :
          /\ comparers["c1"] = NoComparer
          /\ Len(stdRecords) < MaxSeqRecords
          /\ StdEmit(record)
    \/ \E name \in SeqQueryNames :
          comparers["c1"] = NoComparer /\ GetComparer("c1", name)
    \/ \E token \in SeqTokens : last = NoCheck /\ Contains("c1", Sequence(token))

SpecSeq == Init /\ [][NextSeq]_vars

(* A contiguous, in-order window of `records` satisfies the items. *)
WindowExists(token, records) ==
    \E i \in 0..(Len(records) - Len(token)) :
        \A k \in 1..Len(token) : search(get_matcher(token[k]), records[i + k])

LastIsSequence == last # NoCheck /\ last.item.kind = "Sequence"

(* C3: Sequence(m1..mn) in comparer(F) is true iff some start index i with *)
(* 0 <= i <= len(filtered) - n has the filtered record at i+k-1 satisfy mk *)
(* for every k in 1..n.                                                    *)
C3_SequenceIffContiguousWindow ==
    LastIsSequence => (last.verdict <=> WindowExists(last.item.items, LastFiltered))

Texts(records) == [i \in 1..Len(records) |-> records[i].message.s]

(* Sequence(a1, a2, a1) over [a1, --, a1, a2, a1]: the window starts at the *)
(* second a1, after the candidate at the first a1 failed.                   *)
C3_Witness ==
    /\ LastIsSequence
    /\ last.item.items = <<Raw(PyStr(A1)), Raw(PyStr(A2)), Raw(PyStr(A1))>>
    /\ Texts(LastFiltered) = <<A1, Dashes, A1, A2, A1>>
    /\ last.verdict

(* The buffer with every record of another level removed. *)
RECURSIVE OnlyLevel(_, _)
OnlyLevel(records, level) ==
    IF records = <<>> THEN <<>>
    ELSE IF Head(records).levelno = level
         THEN <<Head(records)>> \o OnlyLevel(Tail(records), level)
         ELSE OnlyLevel(Tail(records), level)

(* C4: on a comparer filtered to level L the verdict of a Sequence is the   *)
(* verdict over the buffer with every non-L record removed; on the          *)
(* any_level comparer every record occupies a slot.                         *)
C4_OtherLevelsOccupyNoSlot ==
    LastIsSequence =>
        IF LastCmp.level = NoLevel
        THEN last.verdict <=> WindowExists(last.item.items, LastCmp.records)
        ELSE last.verdict <=>
                 WindowExists(last.item.items, OnlyLevel(LastCmp.records, LastCmp.level))

(* DEBUG a1, INFO a1, DEBUG a2: Sequence(a1, a2) is found on the debug      *)
(* comparer although an INFO record was emitted in between.                 *)
C4_Witness ==
    /\ LastIsSequence
    /\ last.item.items = <<Raw(PyStr(A1)), Raw(PyStr(A2))>>
    /\ LastCmp.level = DEBUG
    /\ Len(LastCmp.records) = 3
    /\ LastCmp.records[1].levelno = DEBUG /\ LastCmp.records[1].message.s = A1
    /\ LastCmp.records[2].levelno = INFO
    /\ LastCmp.records[3].levelno = DEBUG /\ LastCmp.records[3].message.s = A2
    /\ last.verdict

-----------------------------------------------------------------------------
(* SpecContains: one containment check of an ordinary matcher on a comparer *)
(* of any level, over records of both backends.                             *)

One == <<"1">>

ContainsStdInputs ==
    {[levelno |-> DEBUG, msg |-> A1], [levelno |-> WARNING, msg |-> A2]}
ContainsStructInputs ==
    {[levelname |-> "debug", event_dict |-> [event |-> PyStr(A1), foo |-> PyStr(One)]],
     [levelname |-> "info", event_dict |-> [event |-> PyStr(A2)]]}
ContainsItems ==
    {Raw(PyStr(A1)), Regex(PyStr(<<"a", ".">>)), Exact(PyStr(A2)),
     Multiple(<<One, <<"a">>>>),
     Struct(Raw(PyStr(A1)), [foo |-> Raw(PyStr(One))]),
     CompleteStruct(Raw(PyStr(<<"a">>)), EmptyFields)}

NextContains ==
    \/ \E record \in ContainsStdInputs :
          /\ comparers["c1"] = NoComparer
          /\ Len(history) < MaxContainsRecords
          /\ StdEmit(record)
    \/ \E e \in ContainsStructInputs :
          /\ comparers["c1"] = NoComparer
          /\ Len(history) < MaxContainsRecords
          /\ StructCapture(e.levelname, e.event_dict)
    \/ \E name \in DOMAIN levels :
          comparers["c1"] = NoComparer /\ GetComparer("c1", name)
    \/ \E item \in ContainsItems : last = NoCheck /\ Contains("c1", item)

SpecContains == Init /\ [][NextContains]_vars

PassesFilter(rec) == LastCmp.level = NoLevel \/ rec.levelno = LastCmp.level

(* C1: for an ordinary matcher M, `M in comparer(F)` is true iff at least   *)
(* one record of the comparer that passes F satisfies M's search.           *)
C1_ContainsIffSomeFilteredRecordMatches ==
    (last # NoCheck /\ last.item.kind \notin {"NOTHING", "Sequence"}) =>
        (last.verdict <=>
            \E i \in 1..Len(LastCmp.records) :
                /\ PassesFilter(LastCmp.records[i])
                /\ search(get_matcher(last.item), LastCmp.records[i]))

(* WARNING a2 then DEBUG a1: "a1" is found on the debug comparer, whose     *)
(* filter the first record does not pass.                                   *)
C1_Witness ==
    /\ last # NoCheck
    /\ last.item = Raw(PyStr(A1))
    /\ LastCmp.level = DEBUG
    /\ Len(LastCmp.records) = 2
    /\ LastCmp.records[1].levelno = WARNING
    /\ LastCmp.records[2].levelno = DEBUG
    /\ last.verdict

-----------------------------------------------------------------------------
(* SpecMatch: Struct and CompleteStruct against structlog records.         *)

MatchKeys == {"foo", "bar"}
MatchValues == {PyStr(One), PyInt(1), PyNone}
MatchEvents ==
    {("event" :> m) @@ f :
        m \in {PyStr(<<"a">>), PyStr(<<"b">>)},
        f \in UNION {[K -> MatchValues] : K \in SUBSET MatchKeys}}
MatchDeclared ==
    {Raw(PyStr(One)), Raw(PyStr(<<".">>)), Raw(PyStr(<<>>)), Raw(PyInt(1)),
     Raw(PyNone), Exact(PyStr(One)), Multiple(<<One>>)}
MatchMessages == {Raw(PyStr(<<"a">>)), Exact(PyStr(<<"b">>))}
MatchItems ==
    {[kind |-> k, msg |-> m, fields |-> f] :
        k \in {"Struct", "CompleteStruct"},
        m \in MatchMessages,
        f \in UNION {[K -> MatchDeclared] : K \in SUBSET MatchKeys}}

NextMatch ==
    \/ \E event_dict \in MatchEvents :
          /\ comparers["c1"] = NoComparer
          /\ Len(structRecords) < MaxMatchRecords
          /\ StructCapture("debug", event_dict)
    \/ comparers["c1"] = NoComparer /\ GetComparer("c1", "any_level")
    \/ \E item \in MatchItems : last = NoCheck /\ Contains("c1", item)

SpecMatch == Init /\ [][NextMatch]_vars

LastIsStruct == last # NoCheck /\ last.item.kind \in {"Struct", "CompleteStruct"}
Declared == DOMAIN last.item.fields
Present(rec) == DOMAIN rec.extra_fields
MsgOk(rec) == Matcher_search(get_matcher(last.item.msg), rec.message)
FieldOk(key, rec) ==
    Matcher_search(get_matcher(last.item.fields[key]), rec.extra_fields[key])
Recs == LastCmp.records

(* C5: a Struct matches a record only if every declared field name is      *)
(* present among the record's fields; undeclared fields of the record do   *)
(* not prevent the match.                                                   *)
C5_StructNeedsDeclaredFields ==
    (LastIsStruct /\ last.item.kind = "Struct") =>
        /\ last.verdict => \E i \in 1..Len(Recs) : Declared \subseteq Present(Recs[i])
        /\ \A i \in 1..Len(Recs) :
              (/\ Declared \subseteq Present(Recs[i])
               /\ Declared # Present(Recs[i])
               /\ MsgOk(Recs[i])
               /\ \A key \in Declared : FieldOk(key, Recs[i]))
                  => last.verdict

(* Struct(.., foo=..) matches a record that carries foo and bar.            *)
C5_Witness ==
    /\ LastIsStruct /\ last.item.kind = "Struct"
    /\ Declared = {"foo"}
    /\ Len(Recs) = 1 /\ Present(Recs[1]) = {"foo", "bar"}
    /\ last.verdict

(* C6 as stated: a Struct matches whenever the message sub-matcher         *)
(* succeeds and every declared field that is present matches; a declared   *)
(* field absent from the record counts as success.                         *)
C6_AbsentFieldCountsAsSuccess ==
    (/\ LastIsStruct /\ last.item.kind = "Struct"
     /\ \E i \in 1..Len(Recs) :
            /\ MsgOk(Recs[i])
            /\ \A key \in Declared :
                   key \notin Present(Recs[i]) \/ FieldOk(key, Recs[i]))
        => last.verdict

(* C6 amended: a Struct matches a record iff every declared field is       *)
(* present in the record, the message sub-matcher succeeds and every       *)
(* declared field matches its declared value.                              *)
C6_StructIffPresentAndMatching ==
    (LastIsStruct /\ last.item.kind = "Struct") =>
        (last.verdict <=>
            \E i \in 1..Len(Recs) :
                /\ Declared \subseteq Present(Recs[i])
                /\ MsgOk(Recs[i])
                /\ \A key \in Declared : FieldOk(key, Recs[i]))

(* Struct("a", foo="1") does not match the record "a" that has no field.   *)
C6_Witness ==
    /\ LastIsStruct
    /\ last.item = Struct(Raw(PyStr(<<"a">>)), [foo |-> Raw(PyStr(One))])
    /\ Len(Recs) = 1
    /\ Recs[1].message = PyStr(<<"a">>) /\ Present(Recs[1]) = {}
    /\ ~last.verdict

(* C7: a CompleteStruct matches a record iff the record's field names are  *)
(* exactly the declared ones, the message sub-matcher succeeds and every   *)
(* declared value matches; a Struct with the same arguments matches a      *)
(* record with an extra field when the rest agrees.                        *)
C7_CompleteStructIffExactFields ==
    (LastIsStruct /\ last.item.kind = "CompleteStruct") =>
        /\ last.verdict <=>
              \E i \in 1..Len(Recs) :
                  /\ Present(Recs[i]) = Declared
                  /\ MsgOk(Recs[i])
                  /\ \A key \in Declared : FieldOk(key, Recs[i])
        /\ \A i \in 1..Len(Recs) :
              (/\ Declared \subseteq Present(Recs[i])
               /\ MsgOk(Recs[i])
               /\ \A key \in Declared : FieldOk(key, Recs[i]))
                  => search(Struct(last.item.msg, last.item.fields), Recs[i])

(* CompleteStruct("a", foo="1") does not match the record "a" with fields   *)
(* foo="1" and bar.                                                         *)
C7_Witness ==
    /\ LastIsStruct
    /\ last.item = CompleteStruct(Raw(PyStr(<<"a">>)), [foo |-> Raw(PyStr(One))])
    /\ Len(Recs) = 1
    /\ Recs[1].message = PyStr(<<"a">>)
    /\ Present(Recs[1]) = {"foo", "bar"}
    /\ Recs[1].extra_fields["foo"] = PyStr(One)
    /\ ~last.verdict

(* What C8 requires of a record value matched by a declared value. *)
C8_ValueAllowed(declared, value) ==
    CASE declared.kind = "raw" /\ declared.token.t # "str" -> value = declared.token
      [] declared.kind = "raw" /\ declared.token.t = "str" -> value.t = "str"
      [] declared.kind \in {"Regex", "Multiple"} -> value.t = "str"
      [] declared.kind = "Exact" -> value = declared.token

(* C8: inside Struct/CompleteStruct a declared value that is neither a      *)
(* string nor a matcher matches by strict equality only; a raw string, a   *)
(* Regex or a Multiple matches only string values; Exact("1") does not      *)
(* match the number 1.                                                      *)
C8_NonStringFieldsMatchByEquality ==
    (LastIsStruct /\ last.verdict) =>
        \E i \in 1..Len(Recs) :
            /\ Declared \subseteq Present(Recs[i])
            /\ \A key \in Declared :
                   C8_ValueAllowed(last.item.fields[key], Recs[i].extra_fields[key])

(* Struct("a", foo=1, bar=None) matches the record logged with foo=1 and    *)
(* bar=None.                                                                *)
C8_Witness ==
    /\ LastIsStruct
    /\ last.item = Struct(Raw(PyStr(<<"a">>)),
                          [foo |-> Raw(PyInt(1)), bar |-> Raw(PyNone)])
    /\ Len(Recs) = 1
    /\ Recs[1].extra_fields = [foo |-> PyInt(1), bar |-> PyNone]
    /\ last.verdict

(* Python's str() of a value. *)
DigitChars == <<"0", "1", "2", "3", "4", "5", "6", "7", "8", "9">>
RECURSIVE IntStr(_)
IntStr(n) ==
    IF n < 10 THEN <<DigitChars[n + 1]>>
    ELSE IntStr(n \div 10) \o <<DigitChars[(n % 10) + 1]>>
Stringified(value) ==
    CASE value.t = "str" -> value.s
      [] value.t = "int" -> IntStr(value.n)
      [] value.t = "none" -> <<"N", "o", "n", "e">>

IsRawString(declared) == declared.kind = "raw" /\ declared.token.t = "str"

(* C9 as stated: a declared raw string is searched as a regex in the       *)
(* stringified value of the record's field.                                 *)
C9_FieldOkStringified(key, rec) ==
    IF IsRawString(last.item.fields[key])
    THEN RegexSearch(last.item.fields[key].token.s,
                     Stringified(rec.extra_fields[key]))
    ELSE FieldOk(key, rec)

C9_RawStringMatchesStringifiedValue ==
    LastIsStruct =>
        (last.verdict <=>
            \E i \in 1..Len(Recs) :
                /\ extra_fields_ok(last.item, Recs[i])
                /\ MsgOk(Recs[i])
                /\ \A key \in Declared : C9_FieldOkStringified(key, Recs[i]))

(* C9 amended: a declared raw string is searched as an unanchored regex in *)
(* the record's field value when that value is a string, and never matches *)
(* a field whose value is not a string.                                     *)
C9_FieldOkStringOnly(key, rec) ==
    IF IsRawString(last.item.fields[key])
    THEN /\ rec.extra_fields[key].t = "str"
         /\ RegexSearch(last.item.fields[key].token.s, rec.extra_fields[key].s)
    ELSE FieldOk(key, rec)

C9_RawStringMatchesStringValuesOnly ==
    LastIsStruct =>
        (last.verdict <=>
            \E i \in 1..Len(Recs) :
                /\ extra_fields_ok(last.item, Recs[i])
                /\ MsgOk(Recs[i])
                /\ \A key \in Declared : C9_FieldOkStringOnly(key, Recs[i]))

(* Struct("a", foo="1") does not match the record "a" logged with foo=1.    *)
C9_Witness ==
    /\ LastIsStruct
    /\ last.item = Struct(Raw(PyStr(<<"a">>)), [foo |-> Raw(PyStr(One))])
    /\ Len(Recs) = 1
    /\ Recs[1].message = PyStr(<<"a">>)
    /\ Recs[1].extra_fields = [foo |-> PyInt(1)]
    /\ ~last.verdict

-----------------------------------------------------------------------------
(* SpecOrder: one session with both backends, emissions through either,    *)
(* then one comparer and one Sequence check.                                *)

OrderStdInputs == {[levelno |-> DEBUG, msg |-> A1], [levelno |-> DEBUG, msg |-> A2]}
OrderStructInputs ==
    {[levelname |-> "debug", event_dict |-> [event |-> PyStr(A1)]],
     [levelname |-> "debug", event_dict |-> [event |-> PyStr(A2)]]}
OrderQueryNames == {"any_level", "debug"}
OrderTokens == UNION {[1..n -> SeqItems] : n \in 1..MaxOrderLen}

NextOrder ==
    \/ \E record \in OrderStdInputs :
          /\ comparers["c1"] = NoComparer
          /\ Len(history) < MaxOrderRecords
          /\ StdEmit(record)
    \/ \E e \in OrderStructInputs :
          /\ comparers["c1"] = NoComparer
          /\ Len(history) < MaxOrderRecords
          /\ StructCapture(e.levelname, e.event_dict)
    \/ \E name \in OrderQueryNames :
          comparers["c1"] = NoComparer /\ GetComparer("c1", name)
    \/ \E token \in OrderTokens : last = NoCheck /\ Contains("c1", Sequence(token))

SpecOrder == Init /\ [][NextOrder]_vars

(* The emissions of the session since the last reset, of both backends, in *)
(* the order the test made them, as records a matcher can be applied to.   *)
EmissionOrder ==
    LET es == SelectSeq(SubSeq(history, LastResetIdx + 1, Len(history)),
                        LAMBDA e : e.ev = "emit")
    IN  [i \in 1..Len(es) |->
            [levelno |-> es[i].levelno, message |-> es[i].message,
             extra_fields |-> EmptyFields]]

(* C11: with both backends active, the list a comparer evaluates is in     *)
(* true emission order across backends: a Sequence check is true iff the   *)
(* emissions, in the order they were made and level-filtered, hold a       *)
(* contiguous window satisfying its items.                                  *)
C11_SequenceOverEmissionOrder ==
    LastIsSequence =>
        (last.verdict <=>
            WindowExists(last.item.items,
                         SelectSeq(EmissionOrder, LAMBDA r : PassesFilter(r))))

-----------------------------------------------------------------------------
(* The sessions on one logger: installation, teardown, and the emissions   *)
(* the logger and structlog route to whatever is installed.  The code      *)
(* keeps no lifecycle state: `status` and `teardowns` are what the test    *)
(* did to the session object, which stays usable as long as it is held.    *)

Storing(sid) == [cls |-> "_StdlibStoringHandler", sid |-> sid]
UserHandler == [cls |-> "StreamHandler", sid |-> 0]
IsStoring(h) == h.cls = "_StdlibStoringHandler"

StdInstall_NoDedupe(sid, handlers) == Append(handlers, Storing(sid))

(* _StdlibStoringHandler.__init__: drop the storing handlers, add self *)
StdInstall(sid, handlers) ==
    Append(SelectSeq(handlers, LAMBDA h : ~IsStoring(h)), Storing(sid))

(* _StdlibStoringHandler.teardown: drop every storing handler *)
StdUninstall(handlers) == SelectSeq(handlers, LAMBDA h : ~IsStoring(h))

(* `import structlog` succeeded, so a fixture session has a capturer *)
StructlogInstalled == TRUE

Op(sid, op) == [sid |-> sid, op |-> op, torn |-> sessions[sid].status = "torn"]

NewRecords_Inherited(sid) ==
    IF \E i \in 1..Len(loggerHandlers) : IsStoring(loggerHandlers[i])
    THEN LET i == CHOOSE i \in 1..Len(loggerHandlers) : IsStoring(loggerHandlers[i])
         IN  sessions[loggerHandlers[i].sid].records
    ELSE <<>>

(* self.records = [] of a new handler *)
NewRecords(sid) == <<>>

(* What an emission did, as the application sees it: whether a session was *)
(* active, and whether the application's own consumer of the backend (its  *)
(* handler on the logger, its structlog processor chain) got the emission. *)
Emit(backend, levelno, user) ==
    [backend |-> backend, levelno |-> levelno,
     active |-> \E sid \in SessionIds : sessions[sid].status = "active",
     user |-> user]

(* FixtureLogChecker() (kind "fixture", the `logs` fixture) or              *)
(* setup(test_instance, '') (kind "legacy") on the logger                  *)
NewSession(sid, kind) ==
    /\ sessions[sid].status = "none"
    /\ loggerHandlers' = StdInstall(sid, loggerHandlers)
    /\ loggerLevel' = DEBUG
    /\ structlogProcessor' =
          IF kind = "fixture" /\ StructlogInstalled THEN sid ELSE structlogProcessor
    /\ sessions' = [sessions EXCEPT ![sid] =
          [status |-> "active", kind |-> kind,
           original_logger_level |-> loggerLevel,
           records |-> NewRecords(sid), struct_records |-> <<>>, teardowns |-> 0]]
    /\ life' = [life EXCEPT !.lastInstalled = sid, !.lastOp = Op(sid, "create"),
                            !.createdAt[sid] = life.emits]
    /\ UNCHANGED checkVars

(* FixtureLogChecker.teardown: the stdlib handler's teardown, then the     *)
(* capturer's, which does nothing                                           *)
Teardown(sid) ==
    /\ sessions[sid].kind = "fixture"
    /\ sessions[sid].teardowns < MaxTeardowns
    /\ loggerHandlers' = StdUninstall(loggerHandlers)
    /\ loggerLevel' = sessions[sid].original_logger_level
    /\ sessions' = [sessions EXCEPT ![sid].status = "torn",
                                    ![sid].teardowns = @ + 1]
    /\ life' = [life EXCEPT !.lastOp = Op(sid, "teardown")]
    /\ UNCHANGED <<structlogProcessor, checkVars>>

(* FixtureLogChecker.reset on a session object *)
SessionReset(sid) ==
    /\ sessions[sid].kind = "fixture"
    /\ sessions' = [sessions EXCEPT ![sid].records = <<>>,
                                    ![sid].struct_records = <<>>]
    /\ life' = [life EXCEPT !.lastOp = Op(sid, "reset")]
    /\ UNCHANGED <<loggerHandlers, loggerLevel, structlogProcessor, checkVars>>

(* c1 = logs.<name> on a session object *)
SessionGetComparer(sid, name) ==
    /\ sessions[sid].kind = "fixture"
    /\ comparers' = [comparers EXCEPT !["c1"] =
          [level |-> levels[name], desc |-> NoDesc,
           records |-> sessions[sid].records \o sessions[sid].struct_records]]
    /\ nothingDefault' = TRUE
    /\ obtainedAt' = [obtainedAt EXCEPT !["c1"] = Len(history)]
    /\ life' = [life EXCEPT !.lastOp = Op(sid, "comparer")]
    /\ UNCHANGED <<stdRecords, structRecords, last, history, argObj,
                   loggerHandlers, loggerLevel, structlogProcessor, sessions>>

(* Logger.isEnabledFor: the threshold of the logger; 0 lets all through *)
Enabled(levelno) == loggerLevel = NoLevel \/ levelno >= loggerLevel

(* logging.getLogger('').log(levelno, msg): every handler of the logger     *)
(* gets the record; a storing handler appends it to its session's buffer   *)
LoggerEmit(record) ==
    LET r == SimpleRecord(getLevelName(record.levelno), record.levelno,
                          PyStr(record.msg))
        Installed(sid) == \E i \in 1..Len(loggerHandlers) : loggerHandlers[i] = Storing(sid)
    IN  /\ sessions' = [sid \in SessionIds |->
              IF Enabled(record.levelno) /\ Installed(sid)
              THEN [sessions[sid] EXCEPT !.records = Append(@, r)]
              ELSE sessions[sid]]
        /\ life' = [life EXCEPT
              !.emits = @ + 1,
              !.lastEmit = Emit("std", record.levelno,
                    /\ Enabled(record.levelno)
                    /\ \E i \in 1..Len(loggerHandlers) : loggerHandlers[i] = UserHandler)]
        /\ UNCHANGED <<loggerHandlers, loggerLevel, structlogProcessor, checkVars>>

(* structlog.get_logger().<levelname>(event, **kw): the processor chain    *)
(* configured last runs, i.e. some session's _capture, or the              *)
(* application's own chain                                                  *)
StructlogEmit(levelname, event_dict) ==
    LET r == StructRecord(levelname, LevelOfName(levelname), event_dict)
    IN  /\ sessions' = [sid \in SessionIds |->
              IF structlogProcessor = sid
              THEN [sessions[sid] EXCEPT !.struct_records = Append(@, r)]
              ELSE sessions[sid]]
        /\ life' = [life EXCEPT
              !.emits = @ + 1,
              !.lastEmit = Emit("struct", LevelOfName(levelname),
                                structlogProcessor = 0)]
        /\ UNCHANGED <<loggerHandlers, loggerLevel, structlogProcessor, checkVars>>

(* SpecLife: two sessions on the root logger, created and torn down in any *)
(* order, with emissions in between.                                        *)
LifeLevels == {WARNING}
LifeHandlers == {<<>>, <<UserHandler>>}
LifeKinds == {"fixture", "legacy"}
LifeStdInputs ==
    {[levelno |-> DEBUG, msg |-> <<"a">>], [levelno |-> ERROR, msg |-> <<"b">>]}
LifeStructInputs ==
    {[levelname |-> "debug", event_dict |-> [event |-> PyStr(<<"a">>)]]}

InitLife ==
    /\ InitChecks
    /\ \E level \in LifeLevels, handlers \in LifeHandlers : InitLogger(level, handlers)

NextLife ==
    \/ \E sid \in SessionIds, kind \in LifeKinds : NewSession(sid, kind)
    \/ \E sid \in SessionIds : Teardown(sid)
    \/ \E sid \in SessionIds : SessionReset(sid)
    \/ \E sid \in SessionIds : SessionGetComparer(sid, "any_level")
    \/ \E record \in LifeStdInputs : life.emits < MaxLifeEmits /\ LoggerEmit(record)
    \/ \E e \in LifeStructInputs :
          life.emits < MaxLifeEmits /\ StructlogEmit(e.levelname, e.event_dict)

SpecLife == InitLife /\ [][NextLife]_vars

-----------------------------------------------------------------------------
(* Claims checked under SpecLife. *)

StoringHandlers == SelectSeq(loggerHandlers, IsStoring)

RECURSIVE Buffered(_)
Buffered(S) ==
    IF S = {} THEN 0
    ELSE LET sid == CHOOSE x \in S : TRUE
         IN  Len(sessions[sid].records) + Buffered(S \ {sid})

(* C12: after any creations (fixture sessions and legacy setup() calls)    *)
(* and teardowns on the logger, it holds at most one storing handler, the  *)
(* most recently installed one, and no emission is buffered twice.         *)
C12_AtMostOneStoringHandler ==
    /\ Len(StoringHandlers) <= 1
    /\ Len(StoringHandlers) = 1 => StoringHandlers[1] = Storing(life.lastInstalled)
    /\ Buffered(SessionIds) <= life.emits

(* A second session created while the first is active, then an emission:   *)
(* the second session's handler alone is installed and alone buffers it.   *)
C12_Witness ==
    /\ sessions[1].status = "active"
    /\ sessions[2].status = "active"
    /\ sessions[1].kind # sessions[2].kind
    /\ StoringHandlers = <<Storing(2)>>
    /\ life.emits = 1
    /\ Len(sessions[2].records) = 1
    /\ sessions[1].records = <<>>

Created == {sid \in SessionIds : sessions[sid].status # "none"}

(* C13: once every session created on the logger has been torn down, the   *)
(* logger's threshold is the one it had before the first of them was       *)
(* created, whatever the order of the creations and teardowns.             *)
C13_ThresholdRestored ==
    (Created # {} /\ \A sid \in Created : sessions[sid].status = "torn")
        => loggerLevel = life.pristine

(* C14: an emission made after a session's teardown, on either backend, is *)
(* not appended to a buffer of that session.                                *)
C14_NoCaptureAfterTeardown ==
    [][\A sid \in SessionIds :
          sessions[sid].status = "torn" =>
              /\ Len(sessions'[sid].records) <= Len(sessions[sid].records)
              /\ Len(sessions'[sid].struct_records)
                    <= Len(sessions[sid].struct_records)]_vars

(* C18: torn-down is terminal: no reset(), teardown() or comparer access   *)
(* on a torn-down session succeeds.                                         *)
C18_NoOperationAfterTeardown == ~life.lastOp.torn

-----------------------------------------------------------------------------
(* SpecRender: emissions whose argument is an object the test changes      *)
(* afterwards, then a comparer and checks.                                  *)

format_Deferred(fmt, obj) == [t |-> "unrendered", s |-> fmt, n |-> 0]

(* self.format(record): record.msg % record.args, which calls str(obj) *)
format(fmt, obj) == PyStr(fmt \o obj.text)

(* logger.log(levelno, fmt + "%s", argObj) reaching                        *)
(* _StdlibStoringHandler.emit; when str(argObj) raises, the logging call   *)
(* raises and nothing is stored                                             *)
StdEmitArgs(levelno, fmt) ==
    /\ ~argObj.should_explode
    /\ stdRecords' = Append(stdRecords,
            SimpleRecord(getLevelName(levelno), levelno, format(fmt, argObj)))
    /\ history' = Append(history, Emission("std", levelno, PyStr(fmt \o argObj.text)))
    /\ UNCHANGED <<structRecords, nothingDefault, comparers, last,
                   obtainedAt, argObj, lifeVars>>

(* the test changes the object it logged: exploding.should_explode = True, *)
(* or another text                                                          *)
Mutate(obj) ==
    /\ argObj' = obj
    /\ UNCHANGED <<stdRecords, structRecords, nothingDefault, comparers, last,
                   history, obtainedAt, lifeVars>>

TextX == <<"x">>
TextY == <<"y">>
RenderObjs == {Exploding(t, e) : t \in {TextX, TextY}, e \in BOOLEAN}
RenderFormats == {<<"m">>}
RenderLevels == {DEBUG, INFO}
RenderQueryNames == {"any_level", "debug"}
RenderItems == {Raw(PyStr(TextX)), Raw(PyStr(TextY))}

NextRender ==
    \/ \E levelno \in RenderLevels, fmt \in RenderFormats :
          Len(history) < MaxRenderRecords /\ StdEmitArgs(levelno, fmt)
    \/ \E obj \in RenderObjs : obj # argObj /\ Mutate(obj)
    \/ \E name \in RenderQueryNames :
          comparers["c1"] = NoComparer /\ GetComparer("c1", name)
    \/ \E item \in RenderItems : Contains("c1", item)

SpecRender == Init /\ [][NextRender]_vars

(* The emissions made before the comparer of the last check was obtained,  *)
(* with the text each had when it was made.                                 *)
SeenByLast == SubSeq(history, 1, obtainedAt[last.cmp])

-----------------------------------------------------------------------------
(* Claims about reset(), checked under Spec. *)

(* The comparer was obtained after a reset with no emission since, and no  *)
(* emission has been made up to now.                                        *)
ObtainedAfterReset(c) ==
    /\ LastResetIdx > 0
    /\ obtainedAt[c] >= LastResetIdx
    /\ \A i \in (LastResetIdx + 1)..Len(history) : history[i].ev # "emit"

(* C16: a comparer obtained after reset() and before the next emission     *)
(* sees no record: every check on it is false, except NOTHING, which is    *)
(* true.                                                                    *)
C16_EmptyAfterReset ==
    (last # NoCheck /\ ObtainedAfterReset(last.cmp)) =>
        /\ LastCmp.records = <<>>
        /\ last.verdict <=> (last.item = NOTHING)

(* C17: reset() restores NOTHING to its initial state: in the state        *)
(* reset() returns in, NOTHING's default verdict is true.                  *)
C17_ResetRestoresNothing ==
    [][history' = Append(history, ResetEvent) => nothingDefault' = TRUE]_vars

-----------------------------------------------------------------------------
(* The diagnostic of a comparer, shown by pytest when an assert fails.  A  *)
(* line is kept as its parts: the level name it starts with and the        *)
(* content, i.e. the message and, when there are any, the fields.          *)

(* str.upper() of a level name *)
upper(levelname) ==
    CASE levelname \in {"debug", "DEBUG"} -> "DEBUG"
      [] levelname \in {"info", "INFO"} -> "INFO"
      [] levelname \in {"warning", "WARNING"} -> "WARNING"
      [] levelname \in {"error", "ERROR"} -> "ERROR"

(* SimpleRecord.repr_content and StructRecord.repr_content *)
repr_content(record) ==
    IF record.cls = "StructRecord" /\ DOMAIN record.extra_fields # {}
    THEN <<record.message, record.extra_fields>>
    ELSE <<record.message>>

Line(record) ==
    [levelname |-> upper(record.levelname), content |-> repr_content(record)]

Title(cmp) ==
    [desc |-> cmp.desc,
     level_name |-> IF cmp.level = NoLevel THEN "any level" ELSE getLevelName(cmp.level),
     tail |-> IF cmp.records # <<>> THEN "logged lines:" ELSE "no logged lines at all!"]

PyTestComparer_messages_Filtered(cmp) ==
    LET records == LevelFilter(cmp.records, cmp.level)
    IN  <<Title(cmp)>> \o [i \in 1..Len(records) |-> Line(records[i])]

(* PyTestComparer.messages *)
PyTestComparer_messages(cmp) ==
    <<Title(cmp)>> \o [i \in 1..Len(cmp.records) |-> Line(cmp.records[i])]

(* SpecDiag: emissions through both backends, one comparer, one check.     *)
DiagItems == ContainsItems \cup {Sequence(<<Raw(PyStr(A1)), Raw(PyStr(A2))>>)}

NextDiag ==
    \/ \E record \in ContainsStdInputs :
          /\ comparers["c1"] = NoComparer
          /\ Len(history) < MaxDiagRecords
          /\ StdEmit(record)
    \/ \E e \in ContainsStructInputs :
          /\ comparers["c1"] = NoComparer
          /\ Len(history) < MaxDiagRecords
          /\ StructCapture(e.levelname, e.event_dict)
    \/ \E name \in DOMAIN levels :
          comparers["c1"] = NoComparer /\ GetComparer("c1", name)
    \/ \E item \in DiagItems : last = NoCheck /\ Contains("c1", item)

SpecDiag == Init /\ [][NextDiag]_vars

(* The record lines of the last check's comparer: level name and message. *)
LastLines ==
    LET lines == Tail(PyTestComparer_messages(LastCmp))
    IN  [i \in 1..Len(lines) |->
            [levelname |-> lines[i].levelname, message |-> lines[i].content[1]]]

(* The lines a list of emissions would give. *)
LinesOf(es) ==
    [i \in 1..Len(es) |->
        [levelname |-> getLevelName(es[i].levelno), message |-> es[i].message]]

FailedCheck == last # NoCheck /\ ~last.verdict

C20_TitleThenEveryRecordInEmissionOrder ==
    last # NoCheck =>
        LET title == Head(PyTestComparer_messages(LastCmp))
        IN  /\ title.desc =
                  IF last.item.kind = "Sequence" THEN last.item
                  ELSE get_matcher(last.item)
            /\ title.level_name =
                  IF LastCmp.level = NoLevel THEN "any level"
                  ELSE getLevelName(LastCmp.level)
            /\ LastLines = LinesOf(EmissionOrder)

-----------------------------------------------------------------------------
(* The legacy helpers setup() binds on a test case.  A helper reads the     *)
(* handler's records when it is called; what it passes to                   *)
(* test_instance.fail, call by call, is its outcome.                        *)

TokensIn(tokens, record) ==
    \A k \in 1..Len(tokens) : IsSubstring(tokens[k], record.message.s)

LegacyLines(records) ==
    [i \in 1..Len(records) |->
        [levelname |-> records[i].levelname, message |-> records[i].message]]

(* SetupLogChecker._check_generic_pos *)
check_generic_pos(records, tokens) ==
    IF \E i \in 1..Len(records) : TokensIn(tokens, records[i])
    THEN <<>>
    ELSE <<[text |-> "not found", tokens |-> tokens, level_name |-> "",
            lines |-> LegacyLines(records)]>>

(* SetupLogChecker._check_pos: the level test is made once per token *)
check_pos(records, level, tokens) ==
    IF \E i \in 1..Len(records) :
          \A k \in 1..Len(tokens) :
              /\ records[i].levelno = level
              /\ IsSubstring(tokens[k], records[i].message.s)
    THEN <<>>
    ELSE <<[text |-> "not found", tokens |-> tokens,
            level_name |-> getLevelName(level), lines |-> LegacyLines(records)]>>

check_neg_AnyLevel(records, level, tokens) ==
    LET hits == {i \in 1..Len(records) : TokensIn(tokens, records[i])}
        first == CHOOSE i \in hits : \A j \in hits : i <= j
    IN  IF hits = {} THEN <<>>
        ELSE <<[text |-> "found", tokens |-> tokens,
                levelname |-> records[first].levelname,
                message |-> records[first].message]>>

(* SetupLogChecker._check_neg: the loop breaks at the first record of the  *)
(* level that holds every token, and fail reports that record              *)
check_neg(records, level, tokens) ==
    LET hits == {i \in 1..Len(records) :
                    /\ level = NoLevel \/ records[i].levelno = level
                    /\ TokensIn(tokens, records[i])}
        first == CHOOSE i \in hits : \A j \in hits : i <= j
    IN  IF hits = {} THEN <<>>
        ELSE <<[text |-> "found", tokens |-> tokens,
                levelname |-> records[first].levelname,
                message |-> records[first].message]>>

(* test.assertLogged*(...) / test.assertNotLogged*(...) *)
LegacyCheck(helper, level, tokens) ==
    /\ last' = [cmp |-> "legacy", helper |-> helper, level |-> level,
                tokens |-> tokens,
                fails |-> CASE helper = "assertLogged" ->
                                 IF level = NoLevel
                                 THEN check_generic_pos(stdRecords, tokens)
                                 ELSE check_pos(stdRecords, level, tokens)
                            [] helper = "assertNotLogged" ->
                                 check_neg(stdRecords, level, tokens)]
    /\ UNCHANGED <<stdRecords, structRecords, nothingDefault, comparers, history,
                   obtainedAt, argObj, lifeVars>>

(* SpecLegacy: emissions on the logger setup() supervises, then one helper *)
(* call.                                                                    *)
LegacyStdInputs ==
    {[levelno |-> DEBUG, msg |-> A1], [levelno |-> DEBUG, msg |-> A2],
     [levelno |-> WARNING, msg |-> A2]}
LegacyLevels == {NoLevel, DEBUG, INFO, WARNING, ERROR}
LegacyWords == {<<"a">>, <<"1">>, <<"2">>}
LegacyTokens == UNION {[1..n -> LegacyWords] : n \in 0..MaxLegacyTokens}
LegacyHelpers == {"assertLogged", "assertNotLogged"}

NextLegacy ==
    \/ \E record \in LegacyStdInputs :
          /\ last = NoCheck
          /\ Len(history) < MaxLegacyRecords
          /\ StdEmit(record)
    \/ \E helper \in LegacyHelpers, level \in LegacyLevels, tokens \in LegacyTokens :
          last = NoCheck /\ LegacyCheck(helper, level, tokens)

SpecLegacy == Init /\ [][NextLegacy]_vars

(* `Multiple(tokens...) in c`, for the comparer of a level obtained now.     *)
MultipleContained(level, tokens) ==
    PyTestComparer_contains(
        [level |-> level, desc |-> NoDesc, records |-> get_records],
        Multiple(tokens), TRUE).result

LastIsHelper(helper) == last # NoCheck /\ last.cmp = "legacy" /\ last.helper = helper

(* C21: assertLogged<L>(tokens...) does not call fail iff Multiple(tokens...) *)
(* is contained in the comparer for level L over the same records, and     *)
(* assertLogged(tokens...) iff it is contained in the any_level comparer,  *)
(* for every tuple of tokens, the empty one included.                       *)
C21_LegacyEqualsMultiple ==
    LastIsHelper("assertLogged") =>
        (last.fails = <<>> <=> MultipleContained(last.level, last.tokens))

(* The records of the level of the last helper call that hold its tokens. *)
NegHits ==
    {i \in 1..Len(history) :
        /\ last.level = NoLevel \/ history[i].levelno = last.level
        /\ \A k \in 1..Len(last.tokens) :
              IsSubstring(last.tokens[k], history[i].message.s)}

(* C22: assertNotLogged[<L>](tokens...) calls fail iff some captured       *)
(* record (of level L) contains every token; it then calls it once,       *)
(* reporting the first such record in emission order.                      *)
C22_NotLoggedFailsOnFirstHit ==
    LastIsHelper("assertNotLogged") =>
        /\ last.fails # <<>> <=> NegHits # {}
        /\ Len(last.fails) <= 1
        /\ last.fails # <<>> =>
              \E i \in NegHits :
                  /\ \A j \in NegHits : i <= j
                  /\ last.fails[1].levelname = getLevelName(history[i].levelno)
                  /\ last.fails[1].message = history[i].message

(* WARNING a2, DEBUG a1, DEBUG a2: assertNotLoggedDebug("a") fails once    *)
(* and reports the DEBUG a1 record, the first of its level.                 *)
C22_Witness ==
    /\ LastIsHelper("assertNotLogged")
    /\ last.level = DEBUG
    /\ last.tokens = <<<<"a">>>>
    /\ Texts(stdRecords) = <<A2, A1, A2>>
    /\ stdRecords[1].levelno = WARNING
    /\ stdRecords[3].levelno = DEBUG
    /\ last.fails = <<[text |-> "found", tokens |-> <<<<"a">>>>,
                       levelname |-> "DEBUG", message |-> PyStr(A1)]>>

-----------------------------------------------------------------------------
(* Claims about several sessions, checked under SpecLife. *)

Held(sid) == Len(sessions[sid].records) + Len(sessions[sid].struct_records)
EmittedSinceCreation(sid) == life.emits - life.createdAt[sid]
ComparerOf(sid) == life.lastOp.op = "comparer" /\ life.lastOp.sid = sid

(* C23: a comparer obtained from a session holds no record emitted before  *)
(* the session was created, whether the session that captured it was torn *)
(* down or not; with no emission since the creation, it contains no text.  *)
C23_NothingFromBeforeCreation ==
    \A sid \in Created :
        /\ Held(sid) <= EmittedSinceCreation(sid)
        /\ ComparerOf(sid) =>
              /\ Len(comparers["c1"].records) <= EmittedSinceCreation(sid)
              /\ EmittedSinceCreation(sid) = 0 =>
                    \A text \in {<<"a">>, <<"b">>} :
                        ~PyTestComparer_contains(comparers["c1"], Raw(PyStr(text)),
                                                 nothingDefault).result

(* Session 1 captured an emission and was not torn down; session 2,        *)
(* created afterwards, gives a comparer without any record.                 *)
C23_Witness ==
    /\ sessions[1].status = "active"
    /\ sessions[1].records # <<>>
    /\ sessions[2].status = "active"
    /\ life.createdAt[2] = life.emits
    /\ ComparerOf(2)
    /\ comparers["c1"].records = <<>>

InitiallyConfigured(h) == \E i \in 1..Len(life.handlers0) : life.handlers0[i] = h

(* C25: a capture adapter does not suppress the backend: while a session   *)
(* is active, the handlers and the structlog chain the application had     *)
(* configured still get each emission they would have got, and install     *)
(* and teardown leave the other handlers in place and in order.            *)
C25_ApplicationConsumersStillServed ==
    /\ StdUninstall(loggerHandlers) = life.handlers0
    /\ (life.lastEmit.backend = "std" /\ life.lastEmit.active
            /\ InitiallyConfigured(UserHandler)
            /\ life.lastEmit.levelno >= life.pristine)
          => life.lastEmit.user
    /\ (life.lastEmit.backend = "struct" /\ life.lastEmit.active)
          => life.lastEmit.user

(* C30: the active session created last on the logger has its handler      *)
(* installed and the threshold it set, whatever was done to older          *)
(* sessions, so every emission on the logger reaches its buffer.           *)
C30_NewestSessionKeepsCapturing ==
    \A sid \in SessionIds :
        (sessions[sid].status = "active" /\ life.lastInstalled = sid) =>
            /\ \E i \in 1..Len(loggerHandlers) : loggerHandlers[i] = Storing(sid)
            /\ loggerLevel = DEBUG

-----------------------------------------------------------------------------
(* Claims about matchers built without fields, checked under SpecMatch. *)

ZeroFields == LastIsStruct /\ Declared = {}

(* C24: a Struct or CompleteStruct built with a message item and no field  *)
(* gives on every record the verdict of the message matcher alone, also on *)
(* records that carry fields.                                               *)
C24_ZeroFieldsIsMessageOnly ==
    ZeroFields => (last.verdict <=> \E i \in 1..Len(Recs) : MsgOk(Recs[i]))

(* C24 as amended: so does a Struct; a CompleteStruct without fields gives *)
(* the message matcher's verdict on records without fields and false on    *)
(* every record that carries one.                                           *)
C24_ZeroFieldsCompleteNeedsNoFields ==
    ZeroFields =>
        (last.verdict <=>
            \E i \in 1..Len(Recs) :
                /\ MsgOk(Recs[i])
                /\ last.item.kind = "CompleteStruct" => Present(Recs[i]) = {})

(* CompleteStruct("a") against the record of debug("a", foo=1): false,     *)
(* although "a" alone matches.                                              *)
C24_Witness ==
    /\ ZeroFields
    /\ last.item.kind = "CompleteStruct"
    /\ last.item.msg = Raw(PyStr(<<"a">>))
    /\ Len(Recs) = 1
    /\ Recs[1].message = PyStr(<<"a">>)
    /\ Present(Recs[1]) = {"foo"}
    /\ ~last.verdict

-----------------------------------------------------------------------------
(* SpecCoerce: items that are neither strings nor matchers, alone and as   *)
(* elements of a Sequence, against string and non-string messages.         *)

CoerceStdInputs == {[levelno |-> DEBUG, msg |-> One]}
CoerceStructInputs ==
    {[levelname |-> "debug", event_dict |-> [event |-> PyInt(1)]],
     [levelname |-> "info", event_dict |-> [event |-> PyStr(One)]]}
CoerceQueryNames == {"any_level", "debug"}
CoerceItems ==
    {Raw(PyInt(1)), Raw(PyNone), Raw(PyStr(One)),
     Sequence(<<Raw(PyInt(1))>>), Sequence(<<Raw(PyStr(One)), Raw(PyInt(1))>>)}

NextCoerce ==
    \/ \E record \in CoerceStdInputs :
          /\ comparers["c1"] = NoComparer
          /\ Len(history) < MaxCoerceRecords
          /\ StdEmit(record)
    \/ \E e \in CoerceStructInputs :
          /\ comparers["c1"] = NoComparer
          /\ Len(history) < MaxCoerceRecords
          /\ StructCapture(e.levelname, e.event_dict)
    \/ \E name \in CoerceQueryNames :
          comparers["c1"] = NoComparer /\ GetComparer("c1", name)
    \/ \E item \in CoerceItems : last = NoCheck /\ Contains("c1", item)

SpecCoerce == Init /\ [][NextCoerce]_vars

(* An item that is neither a string nor a matcher. *)
UnknownType(item) == item.kind = "raw" /\ item.token.t # "str"

HasUnknownType(item) ==
    \/ UnknownType(item)
    \/ /\ item.kind = "Sequence"
       /\ \E k \in 1..Len(item.items) : UnknownType(item.items[k])

(* C26: an item of an unknown type, as the item of a check or as an        *)
(* element of a Sequence, is rejected: no check with such an item ends     *)
(* with a verdict.                                                          *)
C26_UnknownTypeRejected == last # NoCheck => ~HasUnknownType(last.item)

(* What a raw item asks of a record: equality for an unknown type, a       *)
(* regex search in a string message for a string.                           *)
ElemOk(item, rec) ==
    IF UnknownType(item)
    THEN rec.message = item.token
    ELSE rec.message.t = "str" /\ RegexSearch(item.token.s, rec.message.s)

(* C26 as amended: the item is taken as Exact(item) and the check answers  *)
(* true iff a level-filtered record's message equals it; in a Sequence it  *)
(* takes a window slot that only a record with an equal message fills.     *)
C26_UnknownTypeComparedByEquality ==
    (last # NoCheck /\ HasUnknownType(last.item)) =>
        (last.verdict <=>
            IF last.item.kind = "Sequence"
            THEN \E i \in 0..(Len(LastFiltered) - Len(last.item.items)) :
                    \A k \in 1..Len(last.item.items) :
                        ElemOk(last.item.items[k], LastFiltered[i + k])
            ELSE \E i \in 1..Len(LastFiltered) : ElemOk(last.item, LastFiltered[i]))

(* `1 in logs.debug` after structlog's debug(1): true, by equality. *)
C26_Witness ==
    /\ last # NoCheck
    /\ last.item = Raw(PyInt(1))
    /\ LastCmp.level = DEBUG
    /\ \E i \in 1..Len(LastFiltered) : LastFiltered[i].message = PyInt(1)
    /\ \E i \in 1..Len(LastFiltered) : LastFiltered[i].message = PyStr(One)
    /\ last.verdict

-----------------------------------------------------------------------------
(* SpecDict: structlog emissions made with a keyword dictionary the test   *)
(* holds (argObj) and binds before it logs; structlog builds the event     *)
(* dictionary from the event and the keywords and runs _capture on it.     *)

capture_return_Popped(event_dict) ==
    [k \in (DOMAIN event_dict) \ {"event"} |-> event_dict[k]]

(* the dictionary _capture returns: event_dict itself, which               *)
(* StructRecord.__init__ has left alone (it pops "event" from a copy)      *)
capture_return(event_dict) == event_dict

(* logger.<levelname>(event, **argObj) *)
StructEmitKw(levelname, event) ==
    LET event_dict == ("event" :> event) @@ argObj
        r == StructRecord(levelname, LevelOfName(levelname), event_dict)
    IN  /\ structRecords' = Append(structRecords, r)
        /\ history' = Append(history,
              [ev |-> "emit", backend |-> "struct",
               levelno |-> LevelOfName(levelname), message |-> event,
               kwargs |-> argObj, event_dict |-> event_dict,
               returned |-> capture_return(event_dict)])
        /\ UNCHANGED <<stdRecords, nothingDefault, comparers, last,
                       obtainedAt, argObj, lifeVars>>

DictKwargs ==
    {EmptyFields, [baz |-> PyStr(One)], [baz |-> PyStr(One), foo |-> PyInt(1)]}
DictEvents == {PyStr(<<"a">>), PyStr(<<"b">>)}
DictLevelNames == {"debug", "info"}
DictItems ==
    {Struct(Raw(PyStr(<<"a">>)), [baz |-> Raw(PyStr(One))]),
     CompleteStruct(Raw(PyStr(<<"a">>)), [baz |-> Raw(PyStr(One))])}

NextDict ==
    \/ \E kwargs \in DictKwargs :
          /\ kwargs # argObj
          /\ history = <<>>
          /\ Mutate(kwargs)
    \/ \E levelname \in DictLevelNames, event \in DictEvents :
          /\ argObj \in DictKwargs
          /\ comparers["c1"] = NoComparer
          /\ Len(history) < MaxDictRecords
          /\ StructEmitKw(levelname, event)
    \/ comparers["c1"] = NoComparer /\ GetComparer("c1", "debug")
    \/ \E item \in DictItems : last = NoCheck /\ Contains("c1", item)

SpecDict == Init /\ [][NextDict]_vars

(* C27: capturing a structlog emission leaves the event dictionary as it   *)
(* was: the record holds a copy without the "event" key, the hook returns  *)
(* the dictionary with the same keys and values, and the caller's keyword  *)
(* dictionary is equal to what it was before the emission.                  *)
C27_EventDictUnchanged ==
    /\ Len(structRecords) = Len(history)
    /\ \A i \in 1..Len(history) :
          /\ history[i].returned = history[i].event_dict
          /\ "event" \in DOMAIN history[i].returned
          /\ structRecords[i].message = history[i].event_dict["event"]
          /\ structRecords[i].extra_fields = history[i].kwargs
    /\ history # <<>> => argObj = history[Len(history)].kwargs

(* debug("a", **kwargs) with kwargs = {"baz": "1"}, then a check that      *)
(* finds the record: kwargs is still {"baz": "1"}.                          *)
C27_Witness ==
    /\ last # NoCheck
    /\ last.verdict
    /\ argObj = [baz |-> PyStr(One)]
    /\ Len(history) = 1
    /\ history[1].returned = [event |-> PyStr(<<"a">>), baz |-> PyStr(One)]
    /\ structRecords[1].extra_fields = [baz |-> PyStr(One)]

-----------------------------------------------------------------------------
(* SpecSnap: emissions and resets before and after two comparers are       *)
(* obtained, and checks on either comparer at any time.                     *)

SnapStdInputs == {[levelno |-> DEBUG, msg |-> <<"a">>]}
SnapStructInputs ==
    {[levelname |-> "info", event_dict |-> [event |-> PyStr(<<"b">>)]]}
SnapQueryNames == {"any_level", "debug"}
SnapItems ==
    {Raw(PyStr(<<"a">>)),
     Sequence(<<Raw(PyStr(<<"a">>)), Raw(PyStr(<<"b">>))>>)}

NextSnap ==
    \/ \E record \in SnapStdInputs : Len(history) < MaxSnapEvents /\ StdEmit(record)
    \/ \E e \in SnapStructInputs :
          Len(history) < MaxSnapEvents /\ StructCapture(e.levelname, e.event_dict)
    \/ Len(history) < MaxSnapEvents /\ Reset
    \/ \E name \in SnapQueryNames : comparers["c1"] = NoComparer /\ GetComparer("c1", name)
    \/ \E name \in SnapQueryNames :
          /\ comparers["c1"] # NoComparer
          /\ comparers["c2"] = NoComparer
          /\ GetComparer("c2", name)
    \/ \E c \in ComparerNames, item \in SnapItems : Contains(c, item)

SpecSnap == Init /\ [][NextSnap]_vars

(* What the session held after the first n events: the emissions of each   *)
(* backend since the last reset among them, standard logging first.        *)
EmissionsAt(n, backend) ==
    LET resets == {i \in 1..n : history[i].ev = "reset"}
        from == IF resets = {} THEN 0
                ELSE CHOOSE i \in resets : \A j \in resets : j <= i
    IN  SelectSeq(SubSeq(history, from + 1, n),
                  LAMBDA e : e.ev = "emit" /\ e.backend = backend)

LinesOfHeld(es) ==
    [i \in 1..Len(es) |-> [levelno |-> es[i].levelno, message |-> es[i].message]]

HeldAt(n) == EmissionsAt(n, "std") \o EmissionsAt(n, "struct")

HeldAtFiltered(n, level) ==
    SelectSeq(HeldAt(n), LAMBDA e : level = NoLevel \/ e.levelno = level)

TextFound(item, e) == RegexSearch(item.token.s, e.message.s)

Obtained == {c \in ComparerNames : comparers[c] # NoComparer}

(* C28: a comparer evaluates the records the session held when it was      *)
(* obtained: emissions and resets made afterwards change neither its       *)
(* verdicts nor its diagnostic lines.                                       *)
C28_ComparerIsSnapshot ==
    /\ \A c \in Obtained :
          /\ Captured(comparers[c].records) = LinesOfHeld(HeldAt(obtainedAt[c]))
          /\ Len(PyTestComparer_messages(comparers[c])) = 1 + Len(HeldAt(obtainedAt[c]))
    /\ last # NoCheck =>
          LET held == HeldAtFiltered(obtainedAt[last.cmp], LastCmp.level)
          IN  last.verdict <=>
                IF last.item.kind = "Sequence"
                THEN \E i \in 0..(Len(held) - Len(last.item.items)) :
                        \A k \in 1..Len(last.item.items) :
                            TextFound(last.item.items[k], held[i + k])
                ELSE \E i \in 1..Len(held) : TextFound(last.item, held[i])

(* "a" is logged, c1 is obtained, the session is reset and c2 is obtained: *)
(* "a" is still found in c1, and c2 holds nothing.                          *)
C28_Witness ==
    /\ last # NoCheck
    /\ last.cmp = "c1"
    /\ last.item = Raw(PyStr(<<"a">>))
    /\ last.verdict
    /\ LastResetIdx > obtainedAt["c1"]
    /\ stdRecords = <<>>
    /\ comparers["c2"] # NoComparer
    /\ comparers["c2"].records = <<>>

-----------------------------------------------------------------------------
(* SpecEdge: Sequences of zero to a few items, NOTHING among them, against *)
(* buffers that may be shorter than the Sequence.                           *)

EdgeStdInputs ==
    {[levelno |-> DEBUG, msg |-> <<"a">>], [levelno |-> WARNING, msg |-> <<"b">>]}
EdgeQueryNames == {"any_level", "debug"}
EdgeItems == {Raw(PyStr(<<"a">>)), NOTHING}
EdgeTokens == UNION {[1..n -> EdgeItems] : n \in 0..MaxEdgeLen}

NextEdge ==
    \/ \E record \in EdgeStdInputs :
          /\ comparers["c1"] = NoComparer
          /\ Len(history) < MaxEdgeRecords
          /\ StdEmit(record)
    \/ \E name \in EdgeQueryNames :
          comparers["c1"] = NoComparer /\ GetComparer("c1", name)
    \/ \E token \in EdgeTokens : last = NoCheck /\ Contains("c1", Sequence(token))

SpecEdge == Init /\ [][NextEdge]_vars

(* C29: a Sequence with zero items is contained in every comparer, also    *)
(* one without records; a Sequence with more items than there are          *)
(* level-filtered records is never contained; in both cases no             *)
(* sub-matcher is run, so NOTHING keeps the flag the comparer gave it.     *)
C29_EmptyAndTooLongSequences ==
    LastIsSequence =>
        /\ last.item.items = <<>> => (last.verdict /\ nothingDefault)
        /\ Len(last.item.items) > Len(LastFiltered) =>
              (~last.verdict /\ nothingDefault)

(* Sequence(NOTHING, "a") on the debug comparer over DEBUG a, WARNING b:   *)
(* one filtered record for two items, false, and NOTHING was not run.      *)
C29_Witness ==
    /\ LastIsSequence
    /\ last.item.items = <<NOTHING, Raw(PyStr(<<"a">>))>>
    /\ LastCmp.level = DEBUG
    /\ Len(LastCmp.records) = 2
    /\ Len(LastFiltered) = 1
    /\ ~last.verdict
    /\ nothingDefault

====
